---- MODULE Spec2Model ----
(***************************************************************************)
(* One GET /weather/?city=... request served by WeatherForecastView.get,   *)
(* which drives WeatherService.get_city_and_weather_info: one place-search *)
(* call, then one get_city_weather task per candidate on a                 *)
(* ThreadPoolExecutor, collected with as_completed.                        *)
(***************************************************************************)
EXTENDS Integers, Sequences, FiniteSets, TLC

\* ---------------------------------------------------------------- bounds
\* longest place-search answer in the detailed scenarios
MaxResults == 2
\* number of matches in the wide fan-out scenario
MaxFan == 6
\* largest os.cpu_count() of the serving machine
MaxCpu == 1

\* ---------------------------------------------------------- JSON values
\* dict.get(key) of a key that is not there, and JSON null, are both None
ABSENT == "<absent>"
NONE == "None"
EMPTY == ""

\* Python truthiness of the value dict.get returns
Truthy(v) == v \notin {NONE, EMPTY}

\* res.get(key)
Get(res, key) == IF res[key] = ABSENT THEN NONE ELSE res[key]

List(s) == [t |-> "list", v |-> s]
EmptyDict == [t |-> "dict", v |-> <<>>]
Null == [t |-> "null", v |-> <<>>]

\* truthiness of a list, dict or None
NotEmpty(x) == x.t = "list" /\ x.v # <<>>

Place(i, la, lo, n) == [id |-> i, lat |-> la, long |-> lo, city_name |-> n]

\* place objects the search upstream may answer with
PlaceSamples ==
    { Place("1", "20.66", "-103.34", "Guadalajara"),
      Place("2", "19.43", "-99.13", NONE),
      Place("3", "20.66", "-103.34", ABSENT),
      Place(ABSENT, "19.43", "-99.13", "Guadalajara"),
      Place("4", EMPTY, "-99.13", "Guadalajara"),
      Place("5", "20.66", NONE, "Guadalajara") }

WidePlace == Place("1", "20.66", "-103.34", "Guadalajara")

RECURSIVE SeqsUpTo(_, _)
SeqsUpTo(S, n) ==
    IF n = 0 THEN {<<>>}
    ELSE LET shorter == SeqsUpTo(S, n - 1)
         IN  shorter \cup {Append(s, x) : s \in {q \in shorter : Len(q) = n - 1}, x \in S}

Repeat(x, n) == [k \in 1..n |-> x]

\* what requests.get + raise_for_status + json() of the place search gives
Reply(e, d) == [exc |-> e, data |-> d]
TransportErrors == {"HTTPError", "ConnectionError"}
PlacesFailures == {Reply(e, Null) : e \in TransportErrors}
PlacesReplies ==
    PlacesFailures \cup {Reply("none", Null)}
        \cup {Reply("none", List(s)) : s \in SeqsUpTo(PlaceSamples, MaxResults)}
WideReplies == {Reply("none", List(Repeat(WidePlace, MaxFan)))}

\* ------------------------------------------------- get_city_coordinates
dict_aux(res) ==
    Place(Get(res, "id"), Get(res, "lat"), Get(res, "long"), Get(res, "city_name"))

\* the filter without its test of long
Keep_NoLong(res) == Truthy(Get(res, "id")) /\ Truthy(Get(res, "lat"))

Keep(res) == Truthy(Get(res, "id")) /\ Truthy(Get(res, "lat")) /\ Truthy(Get(res, "long"))

RECURSIVE data_aux(_)
data_aux(data) ==
    IF data = <<>> THEN <<>>
    ELSE IF Keep(Head(data))
         THEN <<dict_aux(Head(data))>> \o data_aux(Tail(data))
         ELSE data_aux(Tail(data))

NoData == EmptyDict

get_city_coordinates(data) ==
    IF NotEmpty(data) THEN List(data_aux(data.v)) ELSE NoData

\* ----------------------------------------------------- get_city_weather
Day(d, lo, hi) == [dt |-> d, temp |-> TRUE, min |-> lo, max |-> hi]
DayNoTemp(d) == [dt |-> d, temp |-> FALSE, min |-> 0, max |-> 0]

\* daily entries of the weather upstream: 2024-08-01 00:00 UTC and 2024-08-02 12:00 UTC
D1 == Day(1722470400, 14, 27)
D2 == Day(1722600000, 15, 29)

Owm(kind, days) == [t |-> kind, daily |-> days]
OwmPayloads ==
    { Owm("null", <<>>), Owm("nodaily", <<>>), Owm("daily", <<>>),
      Owm("daily", <<D1, D2>>), Owm("daily", <<DayNoTemp(1722470400)>>) }
OwmUp == Reply("none", Owm("daily", <<D1, D2>>))
OwmDown == Reply("HTTPError", Owm("null", <<>>))
OwmReplies == {OwmDown} \cup {Reply("none", p) : p \in OwmPayloads}

\* offsets from UTC of the server's local time zone, in seconds
UTCOffsets == {0 - 21600, 0}

Pad2(n) == IF n < 10 THEN "0" \o ToString(n) ELSE ToString(n)

\* strftime('%Y-%m-%d') of the civil date that is z days after 1970-01-01
CivilDate(z) ==
    LET zz == z + 719468
        era == zz \div 146097
        doe == zz - era * 146097
        yoe == (doe - (doe \div 1460) + (doe \div 36524) - (doe \div 146096)) \div 365
        doy == doe - (365 * yoe + (yoe \div 4) - (yoe \div 100))
        mp == (5 * doy + 2) \div 153
        d == doy - ((153 * mp + 2) \div 5) + 1
        m == IF mp < 10 THEN mp + 3 ELSE mp - 9
        y == yoe + era * 400 + (IF m <= 2 THEN 1 ELSE 0)
    IN  ToString(y) \o "-" \o Pad2(m) \o "-" \o Pad2(d)

\* datetime.datetime.fromtimestamp(dt).strftime('%Y-%m-%d')
fromtimestamp(dt, offset) == CivilDate((dt + offset) \div 86400)

d_aux(day, offset) ==
    [datetime |-> fromtimestamp(day.dt, offset), temp_min |-> day.min, temp_max |-> day.max]

forecast_data(daily, offset) == [k \in 1..Len(daily) |-> d_aux(daily[k], offset)]

\* get_city_weather ending without a return value
NoForecast_None == Null

NoForecast == List(<<>>)

Outcome(e, v) == [exc |-> e, val |-> v]

\* the value get_city_weather returns, or the exception it raises
get_city_weather(reply, offset) ==
    IF reply.exc # "none" THEN Outcome(reply.exc, Null)
    ELSE IF reply.data.t = "daily" /\ reply.data.daily # <<>>
         THEN IF \E k \in 1..Len(reply.data.daily) : ~reply.data.daily[k].temp
              THEN Outcome("AttributeError", Null)
              ELSE Outcome("none", List(forecast_data(reply.data.daily, offset)))
         ELSE Outcome("none", NoForecast)

\* --------------------------------------------------- WeatherForecastView
GenericError == "An error occurred, please try again later."

error_response(message, code) == [status |-> code, error |-> message, body |-> <<>>]

JsonResponse(result) == [status |-> 200, error |-> NONE, body |-> result.v]

\* a test for the parameter being absent only
MissingCity_OnlyNone(c) == c = NONE

MissingCity(c) == ~Truthy(c)

\* a test for None in place of emptiness
NotFound_OnlyNone(result) == result.t = "null"

NotFound(result) == ~NotEmpty(result)

\* the response of get once get_city_and_weather_info has raised e or returned result
ViewResponse(e, result) ==
    IF e # "none" THEN error_response(GenericError, 500)
    ELSE IF NotFound(result) THEN error_response("City not found", 404)
    ELSE JsonResponse(result)

\* which of the three except clauses logs the failure
LogLine(e) ==
    IF e = "none" THEN NONE
    ELSE IF e = "HTTPError" THEN "HTTP error occurred"
    ELSE IF e \in TransportErrors THEN "Request error occurred"
    ELSE "An unexpected error occurred"

\* ------------------------------------------------------------- the state
VARIABLES
    city,              \* request.GET.get('city')
    placesApi,         \* what the place-search upstream answers to this request
    owmApi,            \* what the weather upstream may answer to a call
    cpus,              \* os.cpu_count()
    tz,                \* offset of the server's local time
    pc,                \* where the request's thread is
    city_coordinates,  \* the value get_city_coordinates returned
    weather,           \* the 'weather' key of each candidate dict
    futures,           \* the futures of the executor, in submission order
    work_queue,        \* executor._work_queue
    num_threads,       \* len(executor._threads)
    idle_semaphore,    \* executor._idle_semaphore
    finished,          \* as_completed: futures found finished at its start, not yet yielded
    pending,           \* as_completed: futures not finished at its start, not yet yielded
    finished_futures,  \* waiter.finished_futures, oldest first
    results,           \* the list get_city_and_weather_info builds (references to candidates)
    exc,               \* the exception that left the for loop
    response,          \* the JsonResponse of get
    log,               \* what logger.error was given
    placesCalls,       \* requests.get calls to the place search
    weatherCalls,      \* requests.get calls to the weather upstream
    completed,         \* history: futures in the order they finished, up to the end of the loop
    finished0          \* history: the futures as_completed found finished at its start

vars ==
    << city, placesApi, owmApi, cpus, tz, pc, city_coordinates, weather, futures,
       work_queue, num_threads, idle_semaphore, finished, pending, finished_futures,
       results, exc, response, log, placesCalls, weatherCalls, completed, finished0 >>

world == <<city, placesApi, owmApi, cpus, tz>>
pool == <<futures, work_queue, num_threads, idle_semaphore>>
iterator == <<finished, pending, finished_futures, finished0>>
calls == <<placesCalls, weatherCalls>>

Cities == {NONE, EMPTY, "Guadalajara"}
NoWeather == [t |-> "absent", v |-> <<>>]
NoResponse == [status |-> 0, error |-> NONE, body |-> <<>>]

Candidates == city_coordinates.v
Running == {f \in 1..Len(futures) : futures[f].state = "RUNNING"}
Done == {f \in 1..Len(futures) : futures[f].state = "FINISHED"}

\* the dict a candidate is once the loop has set its 'weather' key
Enriched(c) ==
    [id |-> Candidates[c].id, lat |-> Candidates[c].lat, long |-> Candidates[c].long,
     city_name |-> Candidates[c].city_name, weather |-> weather[c]]

ResultList == List([k \in 1..Len(results) |-> Enriched(results[k])])

Start ==
    /\ pc = "get"
    /\ city_coordinates = Null
    /\ weather = <<>>
    /\ futures = <<>>
    /\ work_queue = <<>>
    /\ num_threads = 0
    /\ idle_semaphore = 0
    /\ finished = {}
    /\ pending = {}
    /\ finished_futures = <<>>
    /\ results = <<>>
    /\ exc = "none"
    /\ response = NoResponse
    /\ log = NONE
    /\ placesCalls = 0
    /\ weatherCalls = 0
    /\ completed = <<>>
    /\ finished0 = {}

Init ==
    /\ city \in Cities
    /\ placesApi \in PlacesReplies
    /\ owmApi = OwmReplies
    /\ cpus = MaxCpu
    /\ tz \in UTCOffsets
    /\ Start

\* a place search with many matches while the weather upstream is down, and
\* the short answers while it is up
InitWide ==
    /\ city \in Cities
    /\ \/ placesApi \in WideReplies /\ owmApi = {OwmDown}
       \/ /\ placesApi \in PlacesFailures
                  \cup {Reply("none", List(s)) : s \in SeqsUpTo({WidePlace}, 2)}
          /\ owmApi = {OwmUp}
    /\ cpus \in 1..MaxCpu
    /\ tz = 0
    /\ Start

\* ------------------------------------------------- WeatherForecastView.get
Respond(e, result) ==
    /\ response' = ViewResponse(e, result)
    /\ log' = LogLine(e)
    /\ pc' = "done"

BadRequest ==
    /\ pc = "get"
    /\ MissingCity(city)
    /\ response' = error_response("City name is required", 400)
    /\ pc' = "done"
    /\ UNCHANGED <<world, city_coordinates, weather, pool, iterator, results, exc, log,
                   calls, completed>>

\* the place search fails: the exception passes through the service to get
ResolveRaises ==
    /\ pc = "get"
    /\ ~MissingCity(city)
    /\ placesApi.exc # "none"
    /\ placesCalls' = placesCalls + 1
    /\ exc' = placesApi.exc
    /\ Respond(placesApi.exc, List(results))
    /\ UNCHANGED <<world, city_coordinates, weather, pool, iterator, results,
                   weatherCalls, completed>>

\* no candidate: get_city_and_weather_info returns results as it is
ResolveNothing ==
    /\ pc = "get"
    /\ ~MissingCity(city)
    /\ placesApi.exc = "none"
    /\ ~NotEmpty(get_city_coordinates(placesApi.data))
    /\ placesCalls' = placesCalls + 1
    /\ city_coordinates' = get_city_coordinates(placesApi.data)
    /\ Respond("none", List(results))
    /\ UNCHANGED <<world, weather, pool, iterator, results, exc, weatherCalls,
                   completed>>

\* candidates: the executor is created and the submissions begin
ResolveSome ==
    /\ pc = "get"
    /\ ~MissingCity(city)
    /\ placesApi.exc = "none"
    /\ NotEmpty(get_city_coordinates(placesApi.data))
    /\ placesCalls' = placesCalls + 1
    /\ city_coordinates' = get_city_coordinates(placesApi.data)
    /\ weather' = [c \in 1..Len(get_city_coordinates(placesApi.data).v) |-> NoWeather]
    /\ pc' = "submit"
    /\ UNCHANGED <<world, pool, iterator, results, exc, response, log, weatherCalls,
                   completed>>

\* ------------------------------------- get_city_and_weather_info: fan-out
\* a pool with one thread for every candidate
max_workers_PerCandidate(n) == Len(city_coordinates.v)

\* ThreadPoolExecutor() without max_workers: min(32, (os.cpu_count() or 1) + 4)
max_workers(n) == IF n + 4 < 32 THEN n + 4 ELSE 32

\* a mapping that holds the last candidate for every future
future_to_city_Last(f) == Len(city_coordinates.v)

\* the candidate the dict future_to_city holds for future f
future_to_city(f) == f

\* the arguments of executor.submit for candidate c
SubmitArgs(c) == [lat |-> Get(Candidates[c], "lat"), long |-> Get(Candidates[c], "long")]

\* executor.submit(...) for the next candidate, with _adjust_thread_count
Submit ==
    /\ pc = "submit"
    /\ LET c == Len(futures) + 1
       IN  /\ futures' = Append(futures, [state |-> "PENDING", args |-> SubmitArgs(c),
                                           exc |-> "none", val |-> Null])
           /\ work_queue' = Append(work_queue, c)
           /\ IF idle_semaphore > 0
              THEN idle_semaphore' = idle_semaphore - 1 /\ UNCHANGED num_threads
              ELSE /\ UNCHANGED idle_semaphore
                   /\ num_threads' = IF num_threads < max_workers(cpus)
                                     THEN num_threads + 1 ELSE num_threads
           /\ pc' = IF c = Len(Candidates) THEN "as_completed" ELSE "submit"
    /\ UNCHANGED <<world, city_coordinates, weather, iterator, results, exc, response, log,
                   calls, completed>>

\* a worker thread that is not running a call takes the oldest work item
WorkerGet ==
    /\ work_queue # <<>>
    /\ Cardinality(Running) < num_threads
    /\ futures' = [futures EXCEPT ![Head(work_queue)].state = "RUNNING"]
    /\ work_queue' = Tail(work_queue)
    /\ UNCHANGED <<world, pc, city_coordinates, weather, num_threads, idle_semaphore,
                   iterator, results, exc, response, log, calls, completed>>

\* a worker's get_city_weather call ends: the future is set, the waiter of
\* as_completed is told, the worker counts itself idle
WorkerRun(f, reply) ==
    /\ f \in Running
    /\ LET out == get_city_weather(reply, tz)
       IN  futures' = [futures EXCEPT ![f].state = "FINISHED", ![f].exc = out.exc,
                                      ![f].val = out.val]
    /\ weatherCalls' = weatherCalls + 1
    /\ completed' = IF pc \in {"exit", "done"} THEN completed ELSE Append(completed, f)
    /\ finished_futures' = IF f \in pending THEN Append(finished_futures, f)
                           ELSE finished_futures
    /\ idle_semaphore' = idle_semaphore + 1
    /\ UNCHANGED <<world, pc, city_coordinates, weather, work_queue, num_threads, finished,
                   pending, finished0, results, exc, response, log, placesCalls>>

\* ----------------------------------- get_city_and_weather_info: collection
\* as_completed starts: it sorts the futures into finished and pending
AsCompleted ==
    /\ pc = "as_completed"
    /\ finished' = Done
    /\ finished0' = Done
    /\ pending' = (1..Len(futures)) \ Done
    /\ finished_futures' = <<>>
    /\ pc' = "collect"
    /\ UNCHANGED <<world, city_coordinates, weather, pool, results, exc, response, log,
                   calls, completed>>

\* an iterator that yields any finished future
Yieldable_AnyFinished ==
    finished \cup {finished_futures[k] : k \in 1..Len(finished_futures)}

\* the futures as_completed may yield next: list(finished) in the order of a
\* set of objects, then the waiter's futures in the order they finished
Yieldable ==
    IF finished # {} THEN finished
    ELSE IF finished_futures # <<>> THEN {Head(finished_futures)}
    ELSE {}

Remove(s, f) == SelectSeq(s, LAMBDA x : x # f)

\* a result() that turns the exception of a fetch into an empty forecast
future_result_Swallowed(f) ==
    Outcome("none", IF futures[f].exc = "none" THEN futures[f].val ELSE List(<<>>))

\* future.result()
future_result(f) == Outcome(futures[f].exc, futures[f].val)

Yield(f) ==
    /\ pc = "collect"
    /\ f \in Yieldable

\* one pass of the for loop whose future holds a value
Collect(f) ==
    /\ Yield(f)
    /\ future_result(f).exc = "none"
    /\ finished' = finished \ {f}
    /\ pending' = pending \ {f}
    /\ finished_futures' = Remove(finished_futures, f)
    /\ weather' = [weather EXCEPT ![future_to_city(f)] = future_result(f).val]
    /\ results' = Append(results, future_to_city(f))
    /\ pc' = IF finished' = {} /\ pending' = {} THEN "exit" ELSE "collect"
    /\ UNCHANGED <<world, city_coordinates, pool, finished0, exc, response, log, calls,
                   completed>>

\* one pass of the for loop whose future holds an exception: result() raises
\* it, the loop is left and its iterator dropped, which removes the waiter
CollectRaises(f) ==
    /\ Yield(f)
    /\ future_result(f).exc # "none"
    /\ exc' = future_result(f).exc
    /\ finished' = {}
    /\ pending' = {}
    /\ finished_futures' = <<>>
    /\ pc' = "exit"
    /\ UNCHANGED <<world, city_coordinates, weather, pool, finished0, results, response,
                   log, calls, completed>>

\* shutdown(wait=False)
Joined_NoWait == TRUE

\* executor.__exit__: shutdown(wait=True) has joined every worker thread
Joined == work_queue = <<>> /\ Running = {}

\* the with block is left by return results
Return ==
    /\ pc = "exit"
    /\ exc = "none"
    /\ Joined
    /\ Respond("none", ResultList)
    /\ UNCHANGED <<world, city_coordinates, weather, pool, iterator, results, exc, calls,
                   completed>>

\* the with block is left by the exception of a future
Raise ==
    /\ pc = "exit"
    /\ exc # "none"
    /\ Joined
    /\ Respond(exc, List(<<>>))
    /\ UNCHANGED <<world, city_coordinates, weather, pool, iterator, results, exc, calls,
                   completed>>

Next ==
    \/ BadRequest
    \/ ResolveRaises
    \/ ResolveNothing
    \/ ResolveSome
    \/ Submit
    \/ WorkerGet
    \/ \E f \in 1..Len(futures), reply \in owmApi : WorkerRun(f, reply)
    \/ AsCompleted
    \/ \E f \in 1..Len(futures) : Collect(f)
    \/ \E f \in 1..Len(futures) : CollectRaises(f)
    \/ Return
    \/ Raise

Spec == Init /\ [][Next]_vars

SpecWide == InitWide /\ [][Next]_vars

\* ================================================================ claims
GenericFailure == [status |-> 500, error |-> GenericError, body |-> <<>>]

FetchFailed ==
    \E f \in 1..Len(futures) :
        futures[f].state = "FINISHED" /\ futures[f].exc \in TransportErrors

SearchFailed == placesCalls > 0 /\ placesApi.exc \in TransportErrors

Aggregated == pc = "done" /\ exc = "none" /\ placesCalls = 1

\* C2: when no call raised, the output has one item for every candidate of
\* the Resolver, each candidate exactly once, and every weather field is a list.
C2_OneItemPerCandidate ==
    Aggregated =>
        /\ Len(ResultList.v) = Len(Candidates)
        /\ \A c \in 1..Len(Candidates) :
               Cardinality({k \in 1..Len(results) : results[k] = c}) = 1
        /\ \A k \in 1..Len(results) : ResultList.v[k].weather.t = "list"

\* two candidates, one with an empty forecast and one with a forecast of two days
C2_Witness ==
    /\ Aggregated
    /\ Len(results) = 2
    /\ \E k \in 1..2 : ResultList.v[k].weather = List(<<>>)
    /\ \E k \in 1..2 : Len(ResultList.v[k].weather.v) = 2

Blank == {ABSENT, NONE, EMPTY}

Unusable(res) == res.id \in Blank \/ res.lat \in Blank \/ res.long \in Blank

NoUsableMatch ==
    /\ placesApi.exc = "none"
    /\ \A k \in 1..Len(placesApi.data.v) : Unusable(placesApi.data.v[k])

\* C3: a city name with no candidates (no match, or every match filtered out)
\* gives an empty list with no weather fetch dispatched, and the answer 404
\* "City not found".
C3_NoCandidatesIs404 ==
    (pc = "done" /\ city \notin Blank /\ NoUsableMatch) =>
        /\ results = <<>>
        /\ futures = <<>>
        /\ num_threads = 0
        /\ weatherCalls = 0
        /\ response = [status |-> 404, error |-> "City not found", body |-> <<>>]

\* the place search matched two places and the Resolver filtered both out
C3_Witness ==
    /\ pc = "done"
    /\ city \notin Blank
    /\ NoUsableMatch
    /\ Len(placesApi.data.v) = 2
    /\ response.status = 404

\* C4: a missing or empty city parameter is answered 400 "City name is
\* required" with no call to the Aggregator, the Resolver or the Fetcher.
C4_MissingCityIs400 ==
    (pc = "done" /\ city \in {NONE, EMPTY}) =>
        /\ response = [status |-> 400, error |-> "City name is required", body |-> <<>>]
        /\ placesCalls = 0
        /\ weatherCalls = 0
        /\ city_coordinates = Null
        /\ futures = <<>>

\* the empty string was given
C4_Witness == pc = "done" /\ city = EMPTY /\ response.status = 400

Resolved == pc # "get" /\ city_coordinates.t = "list"

Upstream == placesApi.data.v

AllThree(res) == res.id \notin {ABSENT, NONE} /\ res.lat \notin {ABSENT, NONE}
                    /\ res.long \notin {ABSENT, NONE}

\* C5: the output of get_city_coordinates is a subset of the upstream results
\* that have id, lat and long: results missing one of them are left out, and a
\* result whose city_name is absent or null is passed through.
C5_ResolverFilter ==
    Resolved =>
        /\ \A c \in 1..Len(Candidates) :
               /\ Candidates[c].id # NONE
               /\ Candidates[c].lat # NONE
               /\ Candidates[c].long # NONE
               /\ \E k \in 1..Len(Upstream) :
                      /\ AllThree(Upstream[k])
                      /\ Upstream[k].id = Candidates[c].id
                      /\ Upstream[k].lat = Candidates[c].lat
                      /\ Upstream[k].long = Candidates[c].long
        /\ Len(Candidates) <= Cardinality({k \in 1..Len(Upstream) : AllThree(Upstream[k])})
        /\ \A k \in 1..Len(Upstream) :
               (~Unusable(Upstream[k]) /\ Upstream[k].city_name \in {ABSENT, NONE}) =>
                   \E c \in 1..Len(Candidates) :
                       /\ Candidates[c].id = Upstream[k].id
                       /\ Candidates[c].city_name = NONE

\* one result without id was left out, one without city_name was kept
C5_Witness ==
    /\ Resolved
    /\ Len(Upstream) = 2
    /\ \E k \in 1..2 : Upstream[k].id = ABSENT
    /\ \E k \in 1..2 : Upstream[k].city_name = ABSENT /\ ~Unusable(Upstream[k])
    /\ Len(Candidates) = 1
    /\ Candidates[1].city_name = NONE

NoMatches == placesApi.exc = "none" /\ placesApi.data = List(<<>>)

Dispatched == pc \in {"as_completed", "collect", "exit", "done"} /\ city_coordinates.t = "list"
                 /\ Candidates # <<>>

\* C7: every candidate gets exactly one fetch, issued with its own lat and
\* long, and the weather attached to it is the result of that fetch.
C7_OwnFetch ==
    /\ Len(futures) <= Len(Candidates)
    /\ Dispatched => Len(futures) = Len(Candidates)
    /\ weatherCalls = Cardinality(Done)
    /\ \A f \in 1..Len(futures) :
           /\ futures[f].args.lat = Candidates[f].lat
           /\ futures[f].args.long = Candidates[f].long
    /\ \A c \in 1..Len(weather) :
           weather[c] # NoWeather =>
               /\ futures[c].state = "FINISHED"
               /\ futures[c].exc = "none"
               /\ weather[c] = futures[c].val

\* two candidates at different places with different forecasts, the second
\* collected first
C7_Witness ==
    /\ pc = "done"
    /\ results = <<2, 1>>
    /\ Candidates[1].lat # Candidates[2].lat
    /\ weather[1] # weather[2]
    /\ weather[1] = futures[1].val

\* C8: no dispatched fetch is cancelled: the Aggregator returns, or passes a
\* failure on to the handler, only after every dispatched fetch has finished.
C8_AllFetchesFinish ==
    /\ \A f \in 1..Len(futures) : futures[f].state \in {"PENDING", "RUNNING", "FINISHED"}
    /\ (pc = "done" /\ city_coordinates.t = "list") =>
           /\ Len(futures) = Len(Candidates)
           /\ \A f \in 1..Len(futures) : futures[f].state = "FINISHED"
           /\ weatherCalls = Len(futures)

\* the loop was left by a failure while another fetch had not finished
C8_Witness ==
    /\ pc = "done"
    /\ exc # "none"
    /\ Len(futures) >= 2
    /\ Len(completed) < Len(futures)
    /\ Done = 1..Len(futures)

Succeeded == pc = "done" /\ exc = "none" /\ results # <<>>

\* C9 as stated: on success the output is in the order the fetches completed.
C9_CompletionOrder == Succeeded => results = completed

\* C9 as amended: the fetches that had finished when as_completed began come
\* first, in any order; the others follow in the order they completed.
C9_YieldOrder ==
    Succeeded =>
        LET n0 == Cardinality(finished0)
        IN  /\ {results[k] : k \in 1..n0} = finished0
            /\ SubSeq(results, n0 + 1, Len(results))
                   = SelectSeq(completed, LAMBDA f : f \notin finished0)

\* two fetches that finished during the collection, the second candidate first
C9_Witness ==
    /\ Succeeded
    /\ finished0 = {}
    /\ results = <<2, 1>>
    /\ completed = <<2, 1>>

InProgress == Cardinality(Running)

\* C10 as stated: one worker per candidate, so that a dispatched fetch never
\* waits for a worker while all workers are busy.
C10_WorkerPerCandidate == Len(work_queue) <= num_threads - InProgress

\* C10 as amended: at most min(N, min(32, cpu_count + 4)) fetches are in
\* progress at once and the pool has no more threads than that.
C10_PoolCap ==
    /\ InProgress <= num_threads
    /\ num_threads <= Len(futures)
    /\ num_threads <= cpus + 4
    /\ num_threads <= 32

\* five fetches in progress on a one-processor machine while a sixth waits
C10_Witness ==
    /\ cpus = 1
    /\ InProgress = 5
    /\ work_queue # <<>>
    /\ pc # "submit"

====
